---------------------------- MODULE Spec2Model ----------------------------
(***************************************************************************)
(* A model of package magnet (magnet.go): NewMagnet, parseMagnet,          *)
(* parseKeyVal, newMagnetKey and newURN, together with the library         *)
(* functions they call (strings.Split, strings.SplitAfterN,                *)
(* strings.HasPrefix, strings.ToLower, strconv.Atoi, strconv.ParseInt,     *)
(* base32.StdEncoding.DecodeString, hex.DecodeString, url.QueryUnescape,   *)
(* url.Parse).                                                             *)
(*                                                                         *)
(* A Go string is a sequence of one-character strings; a byte slice is a   *)
(* sequence of numbers in 0..255.  A Go run-time panic (index out of       *)
(* range, slice bounds out of range, assignment to an entry of a nil map)  *)
(* is a third way for a call to end, beside returning a value and          *)
(* returning an error.                                                     *)
(***************************************************************************)
EXTENDS Integers, Sequences, FiniteSets, TLC

(***************************************************************************)
(* Go strings                                                              *)
(***************************************************************************)

\* s[from:] of Go, from counted from 0; the caller checks from <= len(s).
SliceFrom(s, from) == SubSeq(s, from + 1, Len(s))

\* s[lo:hi] of Go, both counted from 0; the caller checks the bounds.
Slice(s, lo, hi) == SubSeq(s, lo + 1, hi)

\* strings.HasPrefix(s, prefix)
HasPrefix(s, prefix) ==
    /\ Len(s) >= Len(prefix)
    /\ SubSeq(s, 1, Len(prefix)) = prefix

\* The 1-based position of the first occurrence of sep in s, 0 when there is
\* none (strings.Index, shifted by one).
Index(s, sep) ==
    LET At == {p \in 1..(Len(s) - Len(sep) + 1) : SubSeq(s, p, p + Len(sep) - 1) = sep}
    IN  IF At = {} THEN 0 ELSE CHOOSE p \in At : \A q \in At : p <= q

\* strings.Contains(s, sep)
Contains(s, sep) == Index(s, sep) # 0

\* strings.Split(s, sep) for a non-empty sep: the pieces between the
\* occurrences of sep, always at least one piece.
RECURSIVE Split(_, _)
Split(s, sep) ==
    LET p == Index(s, sep)
    IN  IF p = 0
        THEN <<s>>
        ELSE <<SubSeq(s, 1, p - 1)>> \o Split(SubSeq(s, p + Len(sep), Len(s)), sep)

\* strings.SplitAfterN(s, sep, n) for a non-empty sep: n = 0 gives no piece,
\* n = 1 gives s alone, n > 1 at most n pieces, n < 0 all of them; each piece
\* but the last ends with sep.
RECURSIVE SplitAfterN(_, _, _)
SplitAfterN(s, sep, n) ==
    LET p == Index(s, sep)
    IN  IF n = 0 THEN <<>>
        ELSE IF n = 1 \/ p = 0 THEN <<s>>
        ELSE <<SubSeq(s, 1, p + Len(sep) - 1)>>
                 \o SplitAfterN(SubSeq(s, p + Len(sep), Len(s)), sep,
                                IF n < 0 THEN n ELSE n - 1)

\* The ASCII upper-case letters and their lower-case forms.
UpperLetters ==
    <<"A","B","C","D","E","F","G","H","I","J","K","L","M",
      "N","O","P","Q","R","S","T","U","V","W","X","Y","Z">>

LowerLetters ==
    <<"a","b","c","d","e","f","g","h","i","j","k","l","m",
      "n","o","p","q","r","s","t","u","v","w","x","y","z">>

\* unicode.ToLower on ASCII: upper-case letter -> lower-case letter.
LowerMap == [c \in {UpperLetters[n] : n \in 1..26} |->
                LowerLetters[CHOOSE n \in 1..26 : UpperLetters[n] = c]]

LowerOf(c) == IF c \in DOMAIN LowerMap THEN LowerMap[c] ELSE c

\* strings.ToLower(s), on ASCII text.
ToLower(s) == [n \in 1..Len(s) |-> LowerOf(s[n])]

Digits == <<"0","1","2","3","4","5","6","7","8","9">>

\* The value of a decimal digit, -1 for any other character.
DigitMap == [c \in {Digits[n] : n \in 1..10} |->
                (CHOOSE n \in 1..10 : Digits[n] = c) - 1]

DigitVal(c) == IF c \in DOMAIN DigitMap THEN DigitMap[c] ELSE -1

HexDigits == <<"0","1","2","3","4","5","6","7","8","9","a","b","c","d","e","f">>

\* The value of a hexadecimal digit in either case, -1 for any other
\* character (reverseHexTable of encoding/hex).
HexMap == [c \in {HexDigits[n] : n \in 1..16} |->
              (CHOOSE n \in 1..16 : HexDigits[n] = c) - 1]

HexVal(c) == IF LowerOf(c) \in DOMAIN HexMap THEN HexMap[LowerOf(c)] ELSE -1

\* The printable ASCII characters of code 32 to 95, and of code 97 to 126.
AsciiLow ==
    <<" ","!","\"","#","$","%","&","'","(",")","*","+",",","-",".","/",
      "0","1","2","3","4","5","6","7","8","9",":",";","<","=",">","?",
      "@","A","B","C","D","E","F","G","H","I","J","K","L","M","N","O",
      "P","Q","R","S","T","U","V","W","X","Y","Z","[","\\","]","^","_">>

AsciiHigh ==
    <<"a","b","c","d","e","f","g","h","i","j","k","l","m","n","o",
      "p","q","r","s","t","u","v","w","x","y","z","{","|","}","~">>

\* The character of a byte: itself when it is one of the characters above,
\* else its two hexadecimal digits after a backslash-x (no two bytes share a
\* character).
Chr(b) ==
    IF b \in 32..95 THEN AsciiLow[b - 31]
    ELSE IF b \in 97..126 THEN AsciiHigh[b - 96]
    ELSE "\\x" \o HexDigits[(b \div 16) + 1] \o HexDigits[(b % 16) + 1]

(***************************************************************************)
(* Library conversions.  Each returns a record: err is NoErr on success    *)
(* and the kind of the error otherwise, val is the converted value.        *)
(***************************************************************************)

\* A nil error.
NoErr == "nil"

\* The number a sequence of decimal digits writes.
RECURSIVE DecVal(_)
DecVal(ds) ==
    IF ds = <<>> THEN 0
    ELSE 10 * DecVal(SubSeq(ds, 1, Len(ds) - 1)) + DigitVal(ds[Len(ds)])

\* ds without its leading zeros.
RECURSIVE StripZeros(_)
StripZeros(ds) ==
    IF ds # <<>> /\ ds[1] = "0" THEN StripZeros(Tail(ds)) ELSE ds

\* Whether the number the digits ds write is greater than the one the digits
\* limit write (neither has a leading zero).
RECURSIVE DecGreater(_, _)
DecGreater(ds, limit) ==
    IF Len(ds) # Len(limit) THEN Len(ds) > Len(limit)
    ELSE IF ds = <<>> THEN FALSE
    ELSE IF ds[1] # limit[1] THEN DigitVal(ds[1]) > DigitVal(limit[1])
    ELSE DecGreater(Tail(ds), Tail(limit))

\* 1<<64 - 1, 1<<63 - 1 and 1<<63, in decimal digits.
MaxUint64 ==
    <<"1","8","4","4","6","7","4","4","0","7","3","7","0","9","5","5","1","6","1","5">>

MaxInt64 ==
    <<"9","2","2","3","3","7","2","0","3","6","8","5","4","7","7","5","8","0","7">>

MinInt64Abs ==
    <<"9","2","2","3","3","7","2","0","3","6","8","5","4","7","7","5","8","0","8">>

\* strconv.ParseInt(s, 10, 64): an optional sign, then decimal digits only.
\* The digits are read left to right; the first character that is no digit
\* is a syntax error unless the digits before it already exceed 64 bits,
\* which is a range error, as is a value outside the int64 range.
ParseInt(s) ==
    LET neg  == s # <<>> /\ s[1] = "-"
        body == IF s # <<>> /\ s[1] \in {"+", "-"} THEN Tail(s) ELSE s
        Bad  == {n \in 1..Len(body) : DigitVal(body[n]) < 0}
        stop == IF Bad = {} THEN Len(body) + 1
                ELSE CHOOSE n \in Bad : \A q \in Bad : n <= q
        read == StripZeros(SubSeq(body, 1, stop - 1))
    IN  IF body = <<>> THEN [err |-> "strconv.ErrSyntax", val |-> 0]
        ELSE IF DecGreater(read, MaxUint64) THEN [err |-> "strconv.ErrRange", val |-> 0]
        ELSE IF Bad # {} THEN [err |-> "strconv.ErrSyntax", val |-> 0]
        ELSE IF DecGreater(read, IF neg THEN MinInt64Abs ELSE MaxInt64)
             THEN [err |-> "strconv.ErrRange", val |-> 0]
        ELSE [err |-> NoErr, val |-> IF neg THEN 0 - DecVal(read) ELSE DecVal(read)]

\* strconv.Atoi(s): ParseInt(s, 10, 0) on a 64-bit int.
Atoi(s) == ParseInt(s)

\* hex.DecodeString(s): two hexadecimal digits a byte; the first character
\* that is no hexadecimal digit is an InvalidByteError, an odd length of
\* digits an ErrLength.
RECURSIVE HexBytes(_)
HexBytes(s) ==
    IF Len(s) < 2 THEN <<>>
    ELSE <<16 * HexVal(s[1]) + HexVal(s[2])>> \o HexBytes(SubSeq(s, 3, Len(s)))

HexDecodeString(s) ==
    IF \E n \in 1..Len(s) : HexVal(s[n]) < 0
    THEN [err |-> "hex.InvalidByteError", val |-> <<>>]
    ELSE IF Len(s) % 2 = 1 THEN [err |-> "hex.ErrLength", val |-> <<>>]
    ELSE [err |-> NoErr, val |-> HexBytes(s)]

\* The alphabet of base32.StdEncoding.
Base32Alphabet ==
    <<"A","B","C","D","E","F","G","H","I","J","K","L","M","N","O","P",
      "Q","R","S","T","U","V","W","X","Y","Z","2","3","4","5","6","7">>

\* The 5-bit value of a base-32 character, -1 for any other character.
Base32Map == [c \in {Base32Alphabet[n] : n \in 1..32} |->
                 (CHOOSE n \in 1..32 : Base32Alphabet[n] = c) - 1]

Base32Val(c) == IF c \in DOMAIN Base32Map THEN Base32Map[c] ELSE -1

\* The five bits of v, most significant first.
Bits5(v) == <<(v \div 16) % 2, (v \div 8) % 2, (v \div 4) % 2, (v \div 2) % 2, v % 2>>

RECURSIVE Base32Bits(_)
Base32Bits(s) ==
    IF s = <<>> THEN <<>> ELSE Bits5(Base32Val(s[1])) \o Base32Bits(Tail(s))

\* The bytes of a sequence of bits, eight bits a byte, left-over bits dropped.
RECURSIVE PackBytes(_)
PackBytes(bs) ==
    IF Len(bs) < 8 THEN <<>>
    ELSE <<128 * bs[1] + 64 * bs[2] + 32 * bs[3] + 16 * bs[4]
            + 8 * bs[5] + 4 * bs[6] + 2 * bs[7] + bs[8]>>
         \o PackBytes(SubSeq(bs, 9, Len(bs)))

\* The number of "=" characters s ends with.
RECURSIVE TrailingPad(_)
TrailingPad(s) ==
    IF s # <<>> /\ s[Len(s)] = "=" THEN 1 + TrailingPad(SubSeq(s, 1, Len(s) - 1)) ELSE 0

\* base32.StdEncoding.DecodeString(s): quanta of eight characters of the
\* alphabet, each five bytes; the last quantum may end with 1, 3, 4 or 6
\* padding characters.  Anything else is a CorruptInputError.
Base32DecodeString(s) ==
    LET pad  == TrailingPad(s)
        data == SubSeq(s, 1, Len(s) - pad)
    IN  IF \/ Len(s) % 8 # 0
           \/ pad \notin {0, 1, 3, 4, 6}
           \/ \E n \in 1..Len(data) : Base32Val(data[n]) < 0
        THEN [err |-> "base32.CorruptInputError", val |-> <<>>]
        ELSE [err |-> NoErr, val |-> PackBytes(Base32Bits(data))]

\* url.QueryUnescape(s): "+" is a space and "%" with two hexadecimal digits
\* is the byte they write; a "%" without two hexadecimal digits after it is
\* an EscapeError.
RECURSIVE Unescaped(_)
Unescaped(s) ==
    IF s = <<>> THEN <<>>
    ELSE IF s[1] = "%"
         THEN <<Chr(16 * HexVal(s[2]) + HexVal(s[3]))>> \o Unescaped(SubSeq(s, 4, Len(s)))
    ELSE IF s[1] = "+" THEN <<" ">> \o Unescaped(Tail(s))
    ELSE <<s[1]>> \o Unescaped(Tail(s))

BadEscape(s) ==
    \E n \in 1..Len(s) :
        /\ s[n] = "%"
        /\ \/ n + 2 > Len(s)
           \/ HexVal(s[n + 1]) < 0
           \/ HexVal(s[n + 2]) < 0

QueryUnescape(s) ==
    IF BadEscape(s) THEN [err |-> "url.EscapeError", val |-> <<>>]
    ELSE [err |-> NoErr, val |-> Unescaped(s)]

\* Whether c may stand in a URL scheme, and whether it may start one.
IsLetter(c) == c \in DOMAIN LowerMap \/ c \in {LowerMap[u] : u \in DOMAIN LowerMap}

IsSchemeChar(c) == IsLetter(c) \/ DigitVal(c) >= 0 \/ c \in {"+", "-", "."}

\* url.Parse(s), as far as parseKeyVal depends on it: whether it fails, and
\* the scheme and the rest of the URL it finds.  The scheme is the text
\* before the first ":" when that text starts with a letter and holds scheme
\* characters only, and is stored in lower case.  The parse fails when the
\* text starts with ":" (missing protocol scheme), when there is no scheme
\* and the first path segment holds a ":", and when a path that does not
\* follow a scheme directly holds a bad "%" escape.
UrlParse(s) ==
    LET Odd    == {n \in 1..Len(s) : ~IsSchemeChar(s[n])}
        odd    == IF Odd = {} THEN 0 ELSE CHOOSE n \in Odd : \A q \in Odd : n <= q
        colon  == odd > 1 /\ s[odd] = ":" /\ IsLetter(s[1])
        scheme == IF colon THEN ToLower(SubSeq(s, 1, odd - 1)) ELSE <<>>
        rest   == IF colon THEN SubSeq(s, odd + 1, Len(s)) ELSE s
        path   == Split(Split(rest, <<"#">>)[1], <<"?">>)[1]
    IN  IF s # <<>> /\ s[1] = ":"
        THEN [err |-> "url.Error", val |-> [Scheme |-> <<>>, Rest |-> <<>>]]
        ELSE IF ~HasPrefix(path, <<"/">>) /\ scheme # <<>>
        THEN [err |-> NoErr, val |-> [Scheme |-> scheme, Rest |-> rest]]
        ELSE IF ~HasPrefix(path, <<"/">>) /\ Contains(Split(path, <<"/">>)[1], <<":">>)
        THEN [err |-> "url.Error", val |-> [Scheme |-> <<>>, Rest |-> <<>>]]
        ELSE IF BadEscape(path)
        THEN [err |-> "url.Error", val |-> [Scheme |-> <<>>, Rest |-> <<>>]]
        ELSE [err |-> NoErr, val |-> [Scheme |-> scheme, Rest |-> rest]]

(***************************************************************************)
(* The tables and types of magnet.go                                       *)
(***************************************************************************)

HashTTH == 0
HashSHA1 == 1
HashBitPrint == 2
HashED2K == 3
HashAICH == 4
HashKazaa == 5
HashBTIH == 6
HashMD5 == 7

\* HashType(-1): the value of ht when no tag matched.
HashNone == -1

\* HashTypeMap with one more tag, "sha", a prefix of the tag "sha1".
HashTypeMapAmbiguous ==
    (<<"t","r","e","e",":","t","i","g","e","r">> :> HashTTH)
    @@ (<<"s","h","a","1">> :> HashSHA1)
    @@ (<<"s","h","a">> :> HashSHA1)
    @@ (<<"b","i","t","p","r","i","n","t">> :> HashBitPrint)
    @@ (<<"e","d","2","k">> :> HashED2K)
    @@ (<<"a","i","c","h">> :> HashAICH)
    @@ (<<"k","z","h","a","s","h">> :> HashKazaa)
    @@ (<<"b","t","i","h">> :> HashBTIH)
    @@ (<<"m","d","5">> :> HashMD5)

\* HashTypeMap: scheme tag -> HashType.
HashTypeMap ==
    (<<"t","r","e","e",":","t","i","g","e","r">> :> HashTTH)
    @@ (<<"s","h","a","1">> :> HashSHA1)
    @@ (<<"b","i","t","p","r","i","n","t">> :> HashBitPrint)
    @@ (<<"e","d","2","k">> :> HashED2K)
    @@ (<<"a","i","c","h">> :> HashAICH)
    @@ (<<"k","z","h","a","s","h">> :> HashKazaa)
    @@ (<<"b","t","i","h">> :> HashBTIH)
    @@ (<<"m","d","5">> :> HashMD5)

KeyAcceptableSource == 0
KeyDisplayName == 1
KeyKeywordTopic == 2
KeyManifestTopic == 3
KeyTrackerAddress == 4
KeyExactLength == 5
KeyExactSource == 6
KeyExactTopic == 7
KeySuplement == 8

\* KeyTypeMap: two-character key prefix -> KeyType.
KeyTypeMap ==
    (<<"a","s">> :> KeyAcceptableSource)
    @@ (<<"d","n">> :> KeyDisplayName)
    @@ (<<"k","t">> :> KeyKeywordTopic)
    @@ (<<"m","t">> :> KeyManifestTopic)
    @@ (<<"t","r">> :> KeyTrackerAddress)
    @@ (<<"x","l">> :> KeyExactLength)
    @@ (<<"x","s">> :> KeyExactSource)
    @@ (<<"x","t">> :> KeyExactTopic)
    @@ (<<"x",".">> :> KeySuplement)

ErrInvalidMagnet == "invalid magnet"

\* How a call ends: with a value, with an error, or in a run-time panic.
Ok == "ok"
Err == "err"
Panic == "panic"

\* Hash{Type, Data}
Hash(type, data) == [Type |-> type, Data |-> data]

\* URN{Hashes}; the tag tells a *URN from a string in ManifestTopics.
URN(hashes) == [kind |-> "URN", Hashes |-> hashes]

\* A string stored in ManifestTopics ([]interface{}).
Str(s) == [kind |-> "string", Value |-> s]

\* A nil map, and a map that was made.
NilMap == [nil |-> TRUE, entries |-> <<>>]

\* &Magnet{}: every slice nil, ExactLength 0, Suplements a nil map.
EmptyMagnet ==
    [ AcceptableSources |-> <<>>,
      DisplayNames      |-> <<>>,
      KeywordTopics     |-> <<>>,
      ManifestTopics    |-> <<>>,
      TrackerAddresses  |-> <<>>,
      ExactLength       |-> 0,
      ExactSources      |-> <<>>,
      ExactTopics       |-> <<>>,
      Suplements        |-> NilMap ]

\* magnetKey{}: the zero value.
EmptyKey == [Type |-> 0, Indx |-> 0, Supl |-> <<>>]

(***************************************************************************)
(* newURN                                                                  *)
(***************************************************************************)

\* The tags at which the loop over HashTypeMap (lines 97-103) can break for
\* the urn string v.  Go leaves the iteration order of a map unspecified, so
\* the loop can break at any tag that is a prefix of the lower-cased text
\* after "urn:"; <<>> stands for a loop that ends without a break.
FirstMatches(v) ==
    LET a   == Split(v, <<"u","r","n",":">>)
        low == ToLower(a[2])
        M   == {d \in DOMAIN HashTypeMap : HasPrefix(low, d)}
    IN  IF Len(a) # 2 \/ M = {} THEN {<<>>} ELSE M

\* newURN(v), with d the tag the loop over HashTypeMap breaks at.
newURN(v, d) ==
    LET a   == Split(v, <<"u","r","n",":">>)
        urn == a[2]
        ht  == IF d = <<>> THEN HashNone ELSE HashTypeMap[d]
        hd  == IF d = <<>> THEN <<>> ELSE SliceFrom(urn, Len(d) + 1)
        b   == Split(hd, <<".">>)
        one == IF ht \in {HashTTH, HashSHA1, HashAICH}
               THEN Base32DecodeString(hd) ELSE HexDecodeString(hd)
        b1  == Base32DecodeString(b[1])
        b2  == Base32DecodeString(b[2])
    IN  IF Len(a) # 2
        THEN [res |-> Err, err |-> ErrInvalidMagnet, urn |-> URN(<<>>)]
        ELSE IF d # <<>> /\ Len(d) + 1 > Len(urn)
        THEN [res |-> Panic, err |-> "slice bounds out of range", urn |-> URN(<<>>)]
        ELSE IF ht \in {HashTTH, HashSHA1, HashAICH, HashED2K, HashKazaa, HashBTIH}
        THEN IF one.err # NoErr
             THEN [res |-> Err, err |-> one.err, urn |-> URN(<<>>)]
             ELSE [res |-> Ok, err |-> NoErr, urn |-> URN(<<Hash(ht, one.val)>>)]
        ELSE IF ht = HashBitPrint
        THEN IF Len(b) # 2
             THEN [res |-> Err, err |-> ErrInvalidMagnet, urn |-> URN(<<>>)]
             ELSE IF b1.err # NoErr
             THEN [res |-> Err, err |-> b1.err, urn |-> URN(<<>>)]
             ELSE IF b2.err # NoErr
             THEN [res |-> Err, err |-> b2.err, urn |-> URN(<<>>)]
             ELSE [res |-> Ok, err |-> NoErr,
                   urn |-> URN(<<Hash(HashSHA1, b1.val), Hash(HashTTH, b2.val)>>)]
        ELSE [res |-> Ok, err |-> NoErr, urn |-> URN(<<>>)]

(***************************************************************************)
(* newMagnetKey                                                            *)
(***************************************************************************)

\* newMagnetKey(k): the key descriptor of the key string k, or an error.
newMagnetKey(k) ==
    LET type == KeyTypeMap[Slice(k, 0, 2)]
        b    == SplitAfterN(k, <<".">>, 1)
        c    == Split(k, <<".">>)
        v    == Atoi(c[2])
        fail == [res |-> Err, err |-> ErrInvalidMagnet, key |-> EmptyKey]
    IN  IF Len(k) < 2 THEN fail
        ELSE IF Slice(k, 0, 2) \notin DOMAIN KeyTypeMap THEN fail
        ELSE IF type = KeySuplement /\ Len(b) < 2 THEN fail
        ELSE IF Len(c) > 2 THEN fail
        ELSE IF Len(c) = 2 /\ v.err # NoErr THEN fail
        ELSE [res |-> Ok, err |-> NoErr,
              key |-> [Type |-> type,
                       Indx |-> IF Len(c) = 2 THEN v.val ELSE 0,
                       Supl |-> IF type = KeySuplement THEN b[2] ELSE <<>>]]

(***************************************************************************)
(* Magnet.parseKeyVal                                                      *)
(***************************************************************************)

\* What parseKeyVal gives back: how it ended, its error, the Magnet as it
\* left it and the key descriptor it worked with.
KeyValOk(m, mk) == [res |-> Ok, err |-> NoErr, m |-> m, mk |-> mk]

KeyValErr(m, mk, e) == [res |-> Err, err |-> e, m |-> m, mk |-> mk]

KeyValPanic(m, mk, e) == [res |-> Panic, err |-> e, m |-> m, mk |-> mk]

\* The assignments of parseKeyVal to the fields of m.
\* m.AcceptableSources = append(m.AcceptableSources, *u) (line 210)
appendAcceptableSource(m, u) == [m EXCEPT !.AcceptableSources = Append(@, u)]

\* appendDisplayName that drops a name the sequence already holds.
appendDisplayNameUnique(m, u) ==
    IF \E n \in 1..Len(m.DisplayNames) : m.DisplayNames[n] = u
    THEN m
    ELSE [m EXCEPT !.DisplayNames = Append(@, u)]

\* m.DisplayNames = append(m.DisplayNames, u) (line 216)
appendDisplayName(m, u) == [m EXCEPT !.DisplayNames = Append(@, u)]

\* m.KeywordTopics = append(m.KeywordTopics, u) (line 222)
appendKeywordTopic(m, u) == [m EXCEPT !.KeywordTopics = Append(@, u)]

\* m.ManifestTopics = append(m.ManifestTopics, u) (lines 229 and 235)
appendManifestTopic(m, u) == [m EXCEPT !.ManifestTopics = Append(@, u)]

\* m.TrackerAddresses = append(m.TrackerAddresses, u) (line 242)
appendTrackerAddress(m, u) == [m EXCEPT !.TrackerAddresses = Append(@, u)]

\* setExactLength that keeps a length already set.
setExactLengthOnce(m, u) ==
    IF m.ExactLength # 0 THEN m ELSE [m EXCEPT !.ExactLength = u]

\* m.ExactLength = u (line 248)
setExactLength(m, u) == [m EXCEPT !.ExactLength = u]

\* m.ExactSources = append(m.ExactSources, v) (line 250)
appendExactSource(m, v) == [m EXCEPT !.ExactSources = Append(@, v)]

\* case KeyExactTopic: m.ManifestTopics = append(m.ManifestTopics, u)
\* (line 256)
appendExactTopic(m, u) == [m EXCEPT !.ManifestTopics = Append(@, u)]

\* m.parseKeyVal(k, v), with d the tag newURN's loop breaks at.
parseKeyVal(m, k, v, d) ==
    LET nk  == newMagnetKey(k)
        mk  == nk.key
        u   == UrlParse(v)
        q   == QueryUnescape(v)
        n   == ParseInt(v)
        r   == newURN(v, d)
        pre == Slice(k, 0, 2)
        old == IF pre \in DOMAIN m.Suplements.entries
               THEN m.Suplements.entries[pre] ELSE <<>>
    IN  IF nk.res # Ok THEN KeyValErr(m, EmptyKey, nk.err)
        ELSE IF mk.Type = KeyAcceptableSource
        THEN IF u.err # NoErr THEN KeyValErr(m, mk, u.err)
             ELSE KeyValOk(appendAcceptableSource(m, u.val), mk)
        ELSE IF mk.Type = KeyDisplayName
        THEN IF q.err # NoErr THEN KeyValErr(m, mk, q.err)
             ELSE KeyValOk(appendDisplayName(m, q.val), mk)
        ELSE IF mk.Type = KeyKeywordTopic
        THEN IF q.err # NoErr THEN KeyValErr(m, mk, q.err)
             ELSE KeyValOk(appendKeywordTopic(m, q.val), mk)
        ELSE IF mk.Type = KeyManifestTopic
        THEN IF HasPrefix(ToLower(v), <<"u","r","n">>)
             THEN IF r.res = Panic THEN KeyValPanic(m, mk, r.err)
                  ELSE IF r.res = Err THEN KeyValErr(m, mk, r.err)
                  ELSE KeyValOk(appendManifestTopic(m, r.urn), mk)
             ELSE IF q.err # NoErr THEN KeyValErr(m, mk, q.err)
                  ELSE KeyValOk(appendManifestTopic(m, Str(q.val)), mk)
        ELSE IF mk.Type = KeyTrackerAddress
        THEN IF q.err # NoErr THEN KeyValErr(m, mk, q.err)
             ELSE KeyValOk(appendTrackerAddress(m, q.val), mk)
        ELSE IF mk.Type = KeyExactLength
        THEN IF n.err # NoErr THEN KeyValErr(m, mk, n.err)
             ELSE KeyValOk(setExactLength(m, n.val), mk)
        ELSE IF mk.Type = KeyExactSource
        THEN KeyValOk(appendExactSource(m, v), mk)
        ELSE IF mk.Type = KeyExactTopic
        THEN IF r.res = Panic THEN KeyValPanic(m, mk, r.err)
             ELSE IF r.res = Err THEN KeyValErr(m, mk, r.err)
             ELSE KeyValOk(appendExactTopic(m, r.urn), mk)
        ELSE IF m.Suplements.nil
             THEN KeyValPanic(m, mk, "assignment to entry in nil map")
             ELSE KeyValOk([m EXCEPT !.Suplements =
                               [nil |-> FALSE,
                                entries |-> (pre :> Append(old, [Key |-> mk.Supl, Val |-> v]))
                                            @@ m.Suplements.entries]], mk)

(***************************************************************************)
(* The inputs                                                              *)
(***************************************************************************)

\* The most tokens an input string holds.
MaxTokens == 2

\* The number of calls of NewMagnet made on one input string.
MaxCalls == 2

MagnetHeader == <<"m","a","g","n","e","t",":","?">>

UrnText == <<"u","r","n",":">>

Sha1Tag == <<"s","h","a","1">>

BtihTag == <<"b","t","i","h">>

BitPrintTag == <<"b","i","t","p","r","i","n","t">>

\* The base-32 text of the bytes "abcde" and of the bytes "fooba".
Base32A == <<"M","F","R","G","G","Z","D","F">>

Base32B == <<"M","Z","X","W","6","Y","T","B">>

HexA == <<"a","b","1","2">>

XtIs == <<"x","t","=">>

\* The tokens the input strings are made of.
TokenPool ==
    { XtIs \o UrnText \o Sha1Tag \o <<":">> \o Base32A,
      <<"x","t",".","2","=">> \o UrnText \o BtihTag \o <<":">> \o HexA,
      <<"x","t",".","-","1","=">> \o UrnText \o BtihTag \o <<":">> \o HexA,
      <<"x","t",".","1",".","2","=">> \o UrnText \o BtihTag \o <<":">> \o HexA,
      <<"x","t",".","a","=">> \o UrnText \o BtihTag \o <<":">> \o HexA,
      XtIs \o UrnText \o Sha1Tag,
      XtIs \o UrnText \o <<"m","d","5",":","a","b">>,
      XtIs \o UrnText \o <<"z","z">>,
      XtIs \o UrnText \o BitPrintTag \o <<":">> \o Base32A \o <<".">> \o Base32B,
      XtIs \o UrnText \o BitPrintTag \o <<":">> \o Base32A,
      XtIs \o UrnText \o BtihTag \o <<":","z","z">>,
      <<"m","t","=">> \o UrnText \o <<"S","H","A","1",":">> \o Base32B,
      <<"m","t","=","h","t","t","p">>,
      <<"d","n">>,
      <<"d","n","=","a","+","b">>,
      <<"d","n","=","%","4","1">>,
      <<"d","n","=","%","4">>,
      <<"k","t","=","k","%","4","1">>,
      <<"t","r","=","u","%","3","A">>,
      <<"x","s","=","a","%","2">>,
      <<"x","s","=","b","=","c">>,
      <<"a","s","=","h","t","t","p",":","/","/","h">>,
      <<"a","s","=",":","x">>,
      <<"x","l","=","1","2">>,
      <<"x","l","=","7">>,
      <<"x","l","=","x">>,
      <<"x","l","=","9","9","9","9","9","9","9","9","9","9",
                    "9","9","9","9","9","9","9","9","9","9">>,
      <<"x",".","f","o","o","=","v">>,
      <<"z","z","=","v">> }

\* The tokens of ts with "&" between them.
RECURSIVE Join(_)
Join(ts) ==
    IF ts = <<>> THEN <<>>
    ELSE IF Len(ts) = 1 THEN ts[1]
    ELSE ts[1] \o <<"&">> \o Join(Tail(ts))

TokenLists == UNION {[1..n -> TokenPool] : n \in 0..MaxTokens}

\* The input strings: "magnet:?" before up to MaxTokens tokens, and strings
\* with another scheme, with no ":?" and with two of them.
Inputs ==
    {MagnetHeader \o Join(ts) : ts \in TokenLists}
    \cup { <<"M","A","G","N","E","T",":","?","x","l","=","7">>,
           <<"m","a","g","n","e","t","2",":","?","x","l","=","7">>,
           <<"m","a","g","n","e","t">>,
           <<"m","a","g","n","e","t",":","?","x","l","=","7",":","?">> }

(***************************************************************************)
(* NewMagnet as a state machine                                            *)
(***************************************************************************)

VARIABLES
    s,      \* the string NewMagnet is called with
    pc,     \* where the call is: "Unparsed", "ForEachToken", "Done", "Failed", "Panicked"
    a,      \* parseMagnet's a after line 272: the raw tokens
    i,      \* the position in a of the token the loop of line 276 takes next
    m,      \* the Magnet that parseMagnet fills
    mk,     \* the key descriptor of the last token classified
    err,    \* the error the call failed with, or the panic it ended in
    ret,    \* what NewMagnet returned
    calls,  \* the number of the current call on s
    prev    \* how the previous call on s ended

vars == <<s, pc, a, i, m, mk, err, ret, calls, prev>>

\* Nothing returned yet.
NoRet == [nil |-> TRUE, magnet |-> EmptyMagnet, err |-> NoErr]

\* A return of the partly filled Magnet beside the error.
RetErrPartial(e) == [nil |-> FALSE, magnet |-> m, err |-> e]

\* return nil, err (line 294)
RetErr(e) == [nil |-> TRUE, magnet |-> EmptyMagnet, err |-> e]

\* return m, nil (line 296)
RetMagnet(mm) == [nil |-> FALSE, magnet |-> mm, err |-> NoErr]

NoOutcome == [pc |-> "none", err |-> NoErr, ret |-> NoRet]

Ended == pc \in {"Done", "Failed", "Panicked"}

Init ==
    /\ s \in Inputs
    /\ pc = "Unparsed"
    /\ a = <<>>
    /\ i = 0
    /\ m = EmptyMagnet
    /\ mk = EmptyKey
    /\ err = NoErr
    /\ ret = NoRet
    /\ calls = 1
    /\ prev = NoOutcome

\* The call fails with error e: parseMagnet returns e and NewMagnet returns
\* nil and e (lines 282, 287, 293-295).
Fail(e) ==
    /\ pc' = "Failed"
    /\ err' = e
    /\ ret' = RetErr(e)

\* NewMagnet line 292 and parseMagnet lines 265-275: split off the scheme,
\* compare it with "magnet", split the query into its tokens.
SplitUri ==
    /\ pc = "Unparsed"
    /\ LET a0 == Split(s, <<":","?">>)
           a1 == Split(a0[2], <<"&">>)
       IN  IF Len(a0) # 2
           THEN Fail(ErrInvalidMagnet) /\ UNCHANGED <<a, i>>
           ELSE IF ToLower(a0[1]) # <<"m","a","g","n","e","t">>
           THEN Fail(ErrInvalidMagnet) /\ UNCHANGED <<a, i>>
           ELSE IF Len(a1) = 0
           THEN Fail(ErrInvalidMagnet) /\ a' = a1 /\ UNCHANGED i
           ELSE /\ pc' = "ForEachToken"
                /\ a' = a1
                /\ i' = 1
                /\ UNCHANGED <<err, ret>>
    /\ UNCHANGED <<s, m, mk, calls, prev>>

\* One pass of the loop of lines 276-284: split the token on "=", then
\* parseKeyVal on its first two pieces.
ParseToken ==
    /\ pc = "ForEachToken"
    /\ i <= Len(a)
    /\ LET b == Split(a[i], <<"=">>)
       IN  IF Len(b) < 1
           THEN Fail(ErrInvalidMagnet) /\ UNCHANGED <<i, m, mk>>
           ELSE IF Len(b) < 2
           THEN /\ pc' = "Panicked"
                /\ err' = "index out of range"
                /\ UNCHANGED <<i, m, mk, ret>>
           ELSE \E d \in FirstMatches(b[2]) :
                    LET r == parseKeyVal(m, b[1], b[2], d)
                    IN  /\ m' = r.m
                        /\ mk' = r.mk
                        /\ IF r.res = Ok
                           THEN i' = i + 1 /\ UNCHANGED <<pc, err, ret>>
                           ELSE IF r.res = Err
                           THEN Fail(r.err) /\ UNCHANGED i
                           ELSE /\ pc' = "Panicked"
                                /\ err' = r.err
                                /\ UNCHANGED <<i, ret>>
    /\ UNCHANGED <<s, a, calls, prev>>

\* The loop is over: parseMagnet returns nil (line 285) and NewMagnet
\* returns m (line 296).
Return ==
    /\ pc = "ForEachToken"
    /\ i > Len(a)
    /\ pc' = "Done"
    /\ ret' = RetMagnet(m)
    /\ UNCHANGED <<s, a, i, m, mk, err, calls, prev>>

\* The caller calls NewMagnet on the same string again.
CallAgain ==
    /\ Ended
    /\ calls < MaxCalls
    /\ prev' = [pc |-> pc, err |-> err, ret |-> ret]
    /\ calls' = calls + 1
    /\ pc' = "Unparsed"
    /\ a' = <<>>
    /\ i' = 0
    /\ m' = EmptyMagnet
    /\ mk' = EmptyKey
    /\ err' = NoErr
    /\ ret' = NoRet
    /\ UNCHANGED s

Next == SplitUri \/ ParseToken \/ Return \/ CallAgain

Spec == Init /\ [][Next]_vars

(***************************************************************************)
(* The claims.  A token is read here from the input text alone: its key is *)
(* the text before the first "=", its value the text between the first and *)
(* the second "=", its category the first two characters of its key.       *)
(***************************************************************************)

TokKey(t) == Split(t, <<"=">>)[1]

TokHasVal(t) == Len(Split(t, <<"=">>)) >= 2

TokVal(t) == Split(t, <<"=">>)[2]

TokIs(t, pre) == HasPrefix(TokKey(t), pre)

\* The tokens of the input whose key starts with pre, in token order.
TokensWith(pre) == SelectSeq(a, LAMBDA t : TokIs(t, pre))

\* The values of a sequence of tokens.
ValsOf(ts) == [n \in 1..Len(ts) |-> TokVal(ts[n])]

\* The URNs among the elements of a sequence of manifest topics.
UrnsIn(topics) == SelectSeq(topics, LAMBDA x : x.kind = "URN")

\* C1: after a successful parse the exact-topics sequence holds one Urn per
\* xt token, in token order, each the Urn the URN Parser gives for the
\* token's value, and the xt tokens add nothing to the manifest topics (which
\* then hold one element per mt token).
C1_ExactTopicsHoldXtUrns ==
    pc = "Done" =>
        LET xts == ValsOf(TokensWith(<<"x","t">>))
        IN  /\ Len(ret.magnet.ExactTopics) = Len(xts)
            /\ \A n \in 1..Len(xts) :
                   \E d \in FirstMatches(xts[n]) :
                       ret.magnet.ExactTopics[n] = newURN(xts[n], d).urn
            /\ Len(ret.magnet.ManifestTopics) = Len(TokensWith(<<"m","t">>))

\* C2: a call of NewMagnet ends as Done, with a Magnet and no error, or as
\* Failed, with an error and no Magnet; it never ends in any other way.
C2_EndsDoneOrFailed ==
    /\ pc # "Panicked"
    /\ pc = "Done" => ~ret.nil /\ ret.err = NoErr
    /\ pc = "Failed" => ret.nil /\ ret.err # NoErr

\* C3: an input whose text after the single ":?" is empty is rejected with
\* ErrInvalidMagnet before any token is classified or dispatched.
C3_EmptyQueryRejected ==
    LET a0 == Split(s, <<":","?">>)
    IN  (Ended /\ Len(a0) = 2 /\ a0[2] = <<>>) =>
            /\ pc = "Failed"
            /\ ret.nil
            /\ ret.err = ErrInvalidMagnet
            /\ mk = EmptyKey

\* A token "x.<tag>=<value>" with a sub-tag that holds no "." .
IsSupplementToken(t) ==
    /\ TokHasVal(t)
    /\ HasPrefix(TokKey(t), <<"x",".">>)
    /\ Len(TokKey(t)) > 2
    /\ ~Contains(SliceFrom(TokKey(t), 2), <<".">>)

\* The pairs {sub-tag, raw value} of the supplemental tokens among ts.
SupplementPairs(ts) ==
    LET xs == SelectSeq(ts, IsSupplementToken)
    IN  [n \in 1..Len(xs) |-> [Key |-> SliceFrom(TokKey(xs[n]), 2), Val |-> TokVal(xs[n])]]

\* C5: a supplemental token is accepted: the call does not end at it, its
\* descriptor is a Supplement with the text after "x." as supplement tag,
\* and once it is dispatched the supplement map holds under "x." the pairs
\* of the supplemental tokens dispatched so far, in token order.
C5_SupplementAccepted ==
    \A n \in 1..Len(a) :
        IsSupplementToken(a[n]) =>
            /\ ~(pc \in {"Failed", "Panicked"} /\ i = n)
            /\ (pc \in {"ForEachToken", "Done"} /\ i = n + 1) =>
                   /\ mk.Type = KeySuplement
                   /\ mk.Supl = SliceFrom(TokKey(a[n]), 2)
                   /\ ~m.Suplements.nil
                   /\ <<"x",".">> \in DOMAIN m.Suplements.entries
                   /\ m.Suplements.entries[<<"x",".">>] = SupplementPairs(SubSeq(a, 1, n))

\* A Urn as the data model has it: one Hash, or a SHA1 Hash and then a
\* TigerTreeHash Hash.
WellFormedUrn(u) ==
    \/ Len(u.Hashes) = 1
    \/ /\ Len(u.Hashes) = 2
       /\ u.Hashes[1].Type = HashSHA1
       /\ u.Hashes[2].Type = HashTTH

\* C6: every Urn the URN Parser returned without error, and so every Urn
\* stored in the Magnet, holds at least one Hash: two, SHA1 then
\* TigerTreeHash, or exactly one.
C6_UrnsNonEmpty ==
    \A n \in 1..Len(UrnsIn(m.ManifestTopics) \o m.ExactTopics) :
        WellFormedUrn((UrnsIn(m.ManifestTopics) \o m.ExactTopics)[n])

\* Whether the text writes a non-negative integer.
IsNonNegativeInt(x) == Atoi(x).err = NoErr /\ Atoi(x).val >= 0

\* C8: a key that was classified without error has at most two segments
\* between its dots; a second segment writes a non-negative integer, which
\* is the descriptor's index; with no second segment the index is 0.
C8_IndexIsNonNegativeInt ==
    (pc \in {"ForEachToken", "Done"} /\ i > 1) =>
        LET c == Split(TokKey(a[i - 1]), <<".">>)
        IN  /\ Len(c) <= 2
            /\ Len(c) = 2 => IsNonNegativeInt(c[2]) /\ mk.Indx = Atoi(c[2]).val
            /\ Len(c) = 1 => mk.Indx = 0

\* A state of C4's case: the second token failed after the first was
\* accumulated, and no Magnet was returned.
C4_Witness ==
    /\ pc = "Failed"
    /\ i = 2
    /\ m # EmptyMagnet
    /\ ret.nil

C4_State ==
    /\ pc = "Failed" =>
           /\ ret.nil
           /\ ret.magnet = EmptyMagnet
           /\ ret.err = err
           /\ err # NoErr
           /\ i >= 1 =>
                  /\ TokHasVal(a[i])
                  /\ \E d \in FirstMatches(TokVal(a[i])) :
                         LET r == parseKeyVal(m, TokKey(a[i]), TokVal(a[i]), d)
                         IN  r.res = Err /\ r.err = ret.err
    /\ pc = "Panicked" => ret = NoRet
    /\ ~ret.nil =>
           /\ pc = "Done"
           /\ i = Len(a) + 1
           /\ ret.err = NoErr
           /\ ret.magnet = m

C4_Step == pc \in {"Failed", "Panicked"} => pc' = "Unparsed"

\* C4: a call in which a token fails with an error returns no Magnet and
\* the very error the failing token gave, and takes no further token: the
\* only step after the failure is the next call.  A call that ends in a
\* panic returns nothing.  A Magnet is returned only by a call that consumed
\* every token without error.
C4_AllOrNothing == []C4_State /\ [][C4_Step]_vars

\* A state of C7's case: the second call on an input with a URN ended as
\* the first did, with a Magnet.
C7_Witness ==
    /\ calls = 2
    /\ pc = "Done"
    /\ prev.pc = "Done"
    /\ UrnsIn(m.ManifestTopics) # <<>>

\* C7: a call on the same input ends as the call before it did: with the
\* same error, or with an equal Magnet; and for every token value at most
\* one tag of HashTypeMap can end the loop of newURN.
C7_Deterministic ==
    /\ (Ended /\ calls >= 2) => [pc |-> pc, err |-> err, ret |-> ret] = prev
    /\ \A n \in 1..Len(a) :
           TokHasVal(a[n]) => Cardinality(FirstMatches(TokVal(a[n]))) = 1

\* The fields of the Magnet that are sequences or the map.
SequenceFields ==
    { "AcceptableSources", "DisplayNames", "KeywordTopics", "ManifestTopics",
      "TrackerAddresses", "ExactSources", "ExactTopics", "Suplements" }

\* A state of C9's case: two xl tokens, 12 and then 7, and the length 7.
C9_Witness ==
    /\ pc = "Done"
    /\ Len(TokensWith(<<"x","l">>)) = 2
    /\ ParseInt(TokVal(TokensWith(<<"x","l">>)[1])).val = 12
    /\ ret.magnet.ExactLength = 7

C9_State ==
    pc = "Done" =>
        LET xls == ValsOf(TokensWith(<<"x","l">>))
        IN  /\ \A n \in 1..Len(xls) : ParseInt(xls[n]).err = NoErr
            /\ ret.magnet.ExactLength =
                   IF xls = <<>> THEN 0 ELSE ParseInt(xls[Len(xls)]).val

C9_Step ==
    (pc = "ForEachToken" /\ i <= Len(a) /\ TokIs(a[i], <<"x","l">>)) =>
        \A f \in SequenceFields : m'[f] = m[f]

\* C9: the Magnet returned holds the value of the last xl token, 0 when
\* there is none; every xl token of a successful parse writes a base-10
\* 64-bit integer; the step that takes an xl token changes no sequence.
C9_ExactLengthLastWins == []C9_State /\ [][C9_Step]_vars

\* The categories that append a decoded value to a sequence of their own.
AppendField ==
    (<<"a","s">> :> "AcceptableSources")
    @@ (<<"d","n">> :> "DisplayNames")
    @@ (<<"k","t">> :> "KeywordTopics")
    @@ (<<"t","r">> :> "TrackerAddresses")
    @@ (<<"x","s">> :> "ExactSources")

\* The value a token of category pre with the raw value v stores.
Decoded(pre, v) ==
    IF pre = <<"a","s">> THEN UrlParse(v).val
    ELSE IF pre = <<"x","s">> THEN v
    ELSE QueryUnescape(v).val

\* A state of C10's case: two tokens with the same display name, both kept.
C10_Witness ==
    /\ pc = "Done"
    /\ Len(ret.magnet.DisplayNames) = 2
    /\ ret.magnet.DisplayNames[1] = ret.magnet.DisplayNames[2]

C10_State ==
    pc = "Done" =>
        \A pre \in DOMAIN AppendField :
            LET vs == ValsOf(TokensWith(pre))
            IN  ret.magnet[AppendField[pre]] = [n \in 1..Len(vs) |-> Decoded(pre, vs[n])]

C10_Step ==
    \A pre \in DOMAIN AppendField :
        (pc = "ForEachToken" /\ i <= Len(a) /\ i' = i + 1 /\ TokIs(a[i], pre)) =>
            /\ m'[AppendField[pre]] = Append(m[AppendField[pre]], Decoded(pre, TokVal(a[i])))
            /\ \A g \in DOMAIN m \ {AppendField[pre]} : m'[g] = m[g]

\* C10: a token of category AcceptableSource, DisplayName, KeywordTopic,
\* TrackerAddress or ExactSource that is dispatched without error appends
\* its decoded value (ExactSource: its raw value) to the end of its own
\* sequence and changes no other field; so the Magnet returned holds, for
\* each of these categories, the values of its tokens in token order,
\* duplicates kept.
C10_AppendOnlyFrame == []C10_State /\ [][C10_Step]_vars

=============================================================================
